---------------------------- MODULE Spec2Model ----------------------------
(***************************************************************************)
(* scripts/format.py of ca65-lsp: the converter that reads the 6502        *)
(* instruction text (alternating mnemonic and description lines), pairs    *)
(* the lines and prints the mapping as a JSON object.                      *)
(*                                                                         *)
(* A text is a sequence of one-character strings.  A run is one process:   *)
(* pc is the statement about to execute, fh the file handle, stdout what   *)
(* the process has written.                                                *)
(***************************************************************************)
EXTENDS Naturals, Sequences, FiniteSets

VARIABLES
    status,      \* the input file on disk: "ok", "missing", "denied", "ioerror"
    content,     \* the characters stored in the input file
    pc,          \* the statement about to execute, or how the process ended
    fh,          \* the file handle: "unopened", "open", "closed"
    pos,         \* the handle's read position
    opens,       \* the number of times open() has been called in this run
    lines,       \* format.py:6
    defs,        \* format.py:7
    docs,        \* format.py:8, an insertion-ordered sequence of <<key, value>>
    stdout,      \* the characters written to standard output by this run
    exc,         \* the exception in flight or that ended the run, "" for none
    exitStatus,  \* the exit status, "0" or "1", Running until the process ends
    run,         \* 1 for the first invocation, 2 for the re-run
    first        \* the first invocation's outcome, kept for the re-run

vars == <<status, content, pc, fh, pos, opens, lines, defs, docs, stdout,
          exc, exitStatus, run, first>>

-----------------------------------------------------------------------------
(* Bounds of the model. *)

\* The longest file content over the plain characters.
MaxLen == 8

\* The longest file content that may also hold "\r" and "\f".
MaxBreakLen == 4

\* The second argument of batched(lines, 2).
BatchSize == 2

Running == "running"

PlainChars == {"a", "\"", "\n"}

BreakChars == {"a", "\n", "\r", "\f"}

Str(A, n) == UNION {[1..k -> A] : k \in 0..n}

Contents == Str(PlainChars, MaxLen) \cup Str(BreakChars, MaxBreakLen)

-----------------------------------------------------------------------------
(* file.read() in text mode with the default newline=None: universal       *)
(* newlines, "\r\n" and a lone "\r" are both handed over as "\n".          *)

RECURSIVE TranslateFrom(_, _, _)
TranslateFrom(raw, i, acc) ==
    IF i > Len(raw) THEN acc
    ELSE IF raw[i] = "\r"
         THEN IF i < Len(raw) /\ raw[i + 1] = "\n"
              THEN TranslateFrom(raw, i + 2, Append(acc, "\n"))
              ELSE TranslateFrom(raw, i + 1, Append(acc, "\n"))
         ELSE TranslateFrom(raw, i + 1, Append(acc, raw[i]))

ReadText(raw) == TranslateFrom(raw, 1, <<>>)

(* str.splitlines(): the characters that end a line.  Python's set also    *)
(* holds \v, \x1c, \x1d, \x1e, \x85, U+2028 and U+2029, which no string     *)
(* of the model contains.                                                  *)
LineBreaks == {"\n", "\r", "\f"}

\* The index of the first line break at or after i, Len(s) + 1 when none.
RECURSIVE FindBreak(_, _)
FindBreak(s, i) ==
    IF i > Len(s) \/ s[i] \in LineBreaks THEN i ELSE FindBreak(s, i + 1)

(* splitlines' loop: cut at each line break ("\r\n" counts as one), append *)
(* the piece before it, start again after it; nothing is appended once the *)
(* text is used up, so one final line break adds no entry.                 *)
RECURSIVE SplitFrom(_, _, _)
SplitFrom(s, j, acc) ==
    IF j > Len(s) THEN acc
    ELSE LET eol == FindBreak(s, j)
             nxt == IF eol > Len(s) THEN eol
                    ELSE IF s[eol] = "\r" /\ eol < Len(s) /\ s[eol + 1] = "\n"
                         THEN eol + 2
                         ELSE eol + 1
         IN  SplitFrom(s, nxt, Append(acc, SubSeq(s, j, eol - 1)))

RECURSIVE StripTrailingEmpty(_)
StripTrailingEmpty(ls) ==
    IF ls # <<>> /\ ls[Len(ls)] = <<>>
    THEN StripTrailingEmpty(SubSeq(ls, 1, Len(ls) - 1))
    ELSE ls

\* Splitlines that also drops the blank lines at the end of the text.
SplitlinesStripped(s) == StripTrailingEmpty(SplitFrom(s, 1, <<>>))

Splitlines(s) == SplitFrom(s, 1, <<>>)

\* Batched as itertools.pairwise would do it: overlapping windows.
RECURSIVE BatchedPairwise(_, _)
BatchedPairwise(xs, n) ==
    IF Len(xs) < n THEN <<>>
    ELSE <<SubSeq(xs, 1, n)>> \o BatchedPairwise(Tail(xs), n)

\* Batched as zip(it, it) would do it: an incomplete last tuple is dropped.
RECURSIVE BatchedDropShort(_, _)
BatchedDropShort(xs, n) ==
    IF Len(xs) < n THEN <<>>
    ELSE <<SubSeq(xs, 1, n)>>
         \o BatchedDropShort(SubSeq(xs, n + 1, Len(xs)), n)

(* list(itertools.batched(xs, n)): tuples of n consecutive items; the last *)
(* tuple is shorter when Len(xs) is no multiple of n.                      *)
RECURSIVE Batched(_, _)
Batched(xs, n) ==
    IF xs = <<>> THEN <<>>
    ELSE IF Len(xs) <= n THEN <<xs>>
         ELSE <<SubSeq(xs, 1, n)>> \o Batched(SubSeq(xs, n + 1, Len(xs)), n)

\* DictSet as setdefault: a key already present keeps its first value.
DictSetDefault(d, k, v) ==
    IF \E i \in 1..Len(d) : d[i][1] = k THEN d ELSE Append(d, <<k, v>>)

\* DictSet as delete-then-insert: an overwritten key moves to the end.
DictSetMoveToEnd(d, k, v) ==
    Append(SelectSeq(d, LAMBDA e : e[1] # k), <<k, v>>)

(* d[k] = v on an insertion-ordered dict: a key already present keeps its  *)
(* place and gets the new value, a new key goes to the end.                *)
DictSet(d, k, v) ==
    IF \E i \in 1..Len(d) : d[i][1] = k
    THEN [i \in 1..Len(d) |-> IF d[i][1] = k THEN <<k, v>> ELSE d[i]]
    ELSE Append(d, <<k, v>>)

\* DictAccepts with a validation the script does not have: no empty key.
DictAcceptsStrict(seq) ==
    \A i \in 1..Len(seq) : Len(seq[i]) = 2 /\ seq[i][1] # <<>>

\* dict(seq) accepts seq when every element has exactly two items.
DictAccepts(seq) == \A i \in 1..Len(seq) : Len(seq[i]) = 2

RECURSIVE DictFill(_, _, _)
DictFill(seq, i, d) ==
    IF i > Len(seq) THEN d
    ELSE DictFill(seq, i + 1, DictSet(d, seq[i][1], seq[i][2]))

\* dict(seq) for an accepted seq: the elements inserted in order.
DictOf(seq) == DictFill(seq, 1, <<>>)

\* EscapeChar of a hand-written formatter: the character as it is.
EscapeCharRaw(c) == <<c>>

(* json.dumps on a dict of strings: the encoder's escapes, then            *)
(* {"k": "v", "k": "v"} with the default separators.                       *)
EscapeChar(c) ==
    CASE c = "\"" -> <<"\\", "\"">>
      [] c = "\\" -> <<"\\", "\\">>
      [] c = "\n" -> <<"\\", "n">>
      [] c = "\r" -> <<"\\", "r">>
      [] c = "\t" -> <<"\\", "t">>
      [] c = "\f" -> <<"\\", "f">>
      [] OTHER    -> <<c>>

RECURSIVE EscapeFrom(_, _)
EscapeFrom(s, i) ==
    IF i > Len(s) THEN <<>> ELSE EscapeChar(s[i]) \o EscapeFrom(s, i + 1)

EncodeString(s) == <<"\"">> \o EscapeFrom(s, 1) \o <<"\"">>

RECURSIVE EncodeItems(_, _)
EncodeItems(d, i) ==
    IF i > Len(d) THEN <<>>
    ELSE (IF i > 1 THEN <<",", " ">> ELSE <<>>)
         \o EncodeString(d[i][1]) \o <<":", " ">> \o EncodeString(d[i][2])
         \o EncodeItems(d, i + 1)

\* Dumps over a mapping whose iteration order changes from process to process.
DumpsHashOrder(d) ==
    LET e == IF run = 1 THEN d ELSE [i \in 1..Len(d) |-> d[Len(d) + 1 - i]]
    IN  <<"{">> \o EncodeItems(e, 1) \o <<"}">>

Dumps(d) == <<"{">> \o EncodeItems(d, 1) \o <<"}">>

\* print(x): the text and the end-of-line print adds.
PrintText(text) == text \o <<"\n">>

-----------------------------------------------------------------------------
(* The process. *)

Statuses == {"ok", "missing", "denied", "ioerror"}

\* The exception open() raises for a file in each state, "" for none.
OpenError(st) ==
    CASE st = "missing" -> "FileNotFoundError"
      [] st = "denied"  -> "PermissionError"
      [] OTHER          -> ""

NoOutcome == [exit |-> Running, out |-> <<>>, exc |-> ""]

Init ==
    /\ status \in Statuses
    /\ content \in Contents
    /\ (status = "missing" => content = <<>>)
    /\ pc = "line5"
    /\ fh = "unopened"
    /\ pos = 0
    /\ opens = 0
    /\ lines = <<>>
    /\ defs = <<>>
    /\ docs = <<>>
    /\ stdout = <<>>
    /\ exc = ""
    /\ exitStatus = Running
    /\ run = 1
    /\ first = NoOutcome

\* Open with a fallback: a file that cannot be opened counts as an empty one.
OpenWithFallback ==
    /\ pc = "line5"
    /\ opens' = opens + 1
    /\ \/ /\ OpenError(status) = ""
          /\ fh' = "open"
          /\ pc' = "line6"
          /\ UNCHANGED <<stdout, exitStatus>>
       \/ /\ OpenError(status) # ""
          /\ stdout' = stdout \o PrintText(<<"{", "}">>)
          /\ exitStatus' = "0"
          /\ pc' = "done"
          /\ fh' = fh
    /\ UNCHANGED <<status, content, pos, lines, defs, docs, exc, run, first>>

\* format.py:5  with open("./instructions/6502.txt", "r") as file:
Open ==
    /\ pc = "line5"
    /\ opens' = opens + 1
    /\ \/ /\ OpenError(status) = ""
          /\ fh' = "open"
          /\ pc' = "line6"
          /\ exc' = exc
       \/ /\ OpenError(status) # ""
          /\ exc' = OpenError(status)
          /\ pc' = "uncaught"
          /\ fh' = fh
    /\ UNCHANGED <<status, content, pos, lines, defs, docs, stdout,
                   exitStatus, run, first>>

\* format.py:6  lines = file.read().splitlines()
ReadLines ==
    /\ pc = "line6"
    /\ \/ /\ status = "ok"
          /\ pos' = Len(content)
          /\ lines' = Splitlines(ReadText(content))
          /\ pc' = "line7"
          /\ exc' = exc
       \/ /\ status = "ioerror"
          /\ exc' = "OSError"
          /\ pc' = "unwinding"
          /\ UNCHANGED <<pos, lines>>
    /\ UNCHANGED <<status, content, fh, opens, defs, docs, stdout,
                   exitStatus, run, first>>

\* format.py:7  defs = typing.cast(..., list(batched(lines, 2)))
Batch ==
    /\ pc = "line7"
    /\ defs' = Batched(lines, BatchSize)
    /\ pc' = "line8"
    /\ UNCHANGED <<status, content, fh, pos, opens, lines, docs, stdout,
                   exc, exitStatus, run, first>>

\* format.py:8  docs = dict(defs)
BuildDict ==
    /\ pc = "line8"
    /\ \/ /\ DictAccepts(defs)
          /\ docs' = DictOf(defs)
          /\ pc' = "line9"
          /\ exc' = exc
       \/ /\ ~DictAccepts(defs)
          /\ exc' = "ValueError"
          /\ pc' = "unwinding"
          /\ docs' = docs
    /\ UNCHANGED <<status, content, fh, pos, opens, lines, defs, stdout,
                   exitStatus, run, first>>

\* format.py:9  print(json.dumps(docs)), still inside the with block
PrintJson ==
    /\ pc = "line9"
    /\ stdout' = stdout \o PrintText(Dumps(docs))
    /\ pc' = "with_exit"
    /\ UNCHANGED <<status, content, fh, pos, opens, lines, defs, docs,
                   exc, exitStatus, run, first>>

\* The with block's normal exit closes the file; the script ends, status 0.
CloseOnExit ==
    /\ pc = "with_exit"
    /\ fh' = "closed"
    /\ exitStatus' = "0"
    /\ pc' = "done"
    /\ UNCHANGED <<status, content, pos, opens, lines, defs, docs, stdout,
                   exc, run, first>>

\* CloseOnError without the with statement: nothing closes the file.
LeakOnError ==
    /\ pc = "unwinding"
    /\ pc' = "uncaught"
    /\ UNCHANGED <<status, content, fh, pos, opens, lines, defs, docs,
                   stdout, exc, exitStatus, run, first>>

\* An exception leaving the with block closes the file and goes on up.
CloseOnError ==
    /\ pc = "unwinding"
    /\ fh' = "closed"
    /\ pc' = "uncaught"
    /\ UNCHANGED <<status, content, pos, opens, lines, defs, docs, stdout,
                   exc, exitStatus, run, first>>

\* No handler: the interpreter prints the traceback to stderr, status 1.
Die ==
    /\ pc = "uncaught"
    /\ exitStatus' = "1"
    /\ pc' = "failed"
    /\ UNCHANGED <<status, content, fh, pos, opens, lines, defs, docs,
                   stdout, exc, run, first>>

Terminated == pc \in {"done", "failed"}

\* The converter is invoked again on the same, unchanged file.
Rerun ==
    /\ Terminated
    /\ run = 1
    /\ run' = 2
    /\ first' = [exit |-> exitStatus, out |-> stdout, exc |-> exc]
    /\ pc' = "line5"
    /\ fh' = "unopened"
    /\ pos' = 0
    /\ opens' = 0
    /\ lines' = <<>>
    /\ defs' = <<>>
    /\ docs' = <<>>
    /\ stdout' = <<>>
    /\ exc' = ""
    /\ exitStatus' = Running
    /\ UNCHANGED <<status, content>>

Next ==
    \/ Open
    \/ ReadLines
    \/ Batch
    \/ BuildDict
    \/ PrintJson
    \/ CloseOnExit
    \/ CloseOnError
    \/ Die

Spec == Init /\ [][Next]_vars

NextTwice == Next \/ Rerun

SpecTwice == Init /\ [][NextTwice]_vars

-----------------------------------------------------------------------------
(* Reading the output back: a parser for a JSON object of strings in       *)
(* json.dumps' default layout.  It answers ok = FALSE for any other text.  *)

At(s, i) == IF i \in 1..Len(s) THEN s[i] ELSE ""

Unescape(c) ==
    CASE c = "n" -> "\n"
      [] c = "r" -> "\r"
      [] c = "t" -> "\t"
      [] c = "f" -> "\f"
      [] OTHER   -> c

\* From i, just after an opening quote, to just after the closing one.
RECURSIVE ScanString(_, _, _)
ScanString(s, i, acc) ==
    IF i > Len(s) \/ s[i] \in {"\n", "\r", "\t", "\f"}
    THEN [ok |-> FALSE, val |-> <<>>, next |-> i]
    ELSE IF s[i] = "\"" THEN [ok |-> TRUE, val |-> acc, next |-> i + 1]
    ELSE IF s[i] = "\\"
         THEN IF At(s, i + 1) \in {"\"", "\\", "n", "r", "t", "f"}
              THEN ScanString(s, i + 2, Append(acc, Unescape(s[i + 1])))
              ELSE [ok |-> FALSE, val |-> <<>>, next |-> i]
         ELSE ScanString(s, i + 1, Append(acc, s[i]))

NotJson == [ok |-> FALSE, items |-> <<>>]

\* From i, the opening quote of a key, to the closing brace.
RECURSIVE ScanItems(_, _, _)
ScanItems(s, i, acc) ==
    IF At(s, i) # "\"" THEN NotJson
    ELSE LET k == ScanString(s, i + 1, <<>>)
         IN  IF ~k.ok \/ At(s, k.next) # ":" \/ At(s, k.next + 1) # " "
                \/ At(s, k.next + 2) # "\""
             THEN NotJson
             ELSE LET v == ScanString(s, k.next + 3, <<>>)
                      got == Append(acc, <<k.val, v.val>>)
                  IN  IF ~v.ok THEN NotJson
                      ELSE IF At(s, v.next) = "}" /\ v.next = Len(s)
                           THEN [ok |-> TRUE, items |-> got]
                      ELSE IF At(s, v.next) = "," /\ At(s, v.next + 1) = " "
                           THEN ScanItems(s, v.next + 2, got)
                           ELSE NotJson

LoadsObject(s) ==
    IF At(s, 1) # "{" THEN NotJson
    ELSE IF Len(s) = 2 /\ s[2] = "}" THEN [ok |-> TRUE, items |-> <<>>]
    ELSE ScanItems(s, 2, <<>>)

\* The run has written to standard output.
Written == stdout # <<>>

\* What was written, read back: the text without print's end of line.
Output ==
    IF Written /\ stdout[Len(stdout)] = "\n"
    THEN LoadsObject(SubSeq(stdout, 1, Len(stdout) - 1))
    ELSE NotJson

Entries == Output.items

\* The pairs of the line sequence: pair p is lines[2p-1], lines[2p].
NumPairs == Len(lines) \div 2

PairKey(p) == lines[2 * p - 1]

PairValue(p) == lines[2 * p]

EvenLength == Len(lines) % 2 = 0

KeysDistinct ==
    \A p, q \in 1..NumPairs : PairKey(p) = PairKey(q) => p = q

PairsOf(k) == {p \in 1..NumPairs : PairKey(p) = k}

FirstPair(k) == CHOOSE p \in PairsOf(k) : \A q \in PairsOf(k) : p <= q

LastPair(k) == CHOOSE p \in PairsOf(k) : \A q \in PairsOf(k) : q <= p

EntriesOf(k) == {i \in 1..Len(Entries) : Entries[i][1] = k}

-----------------------------------------------------------------------------
(* C1, as stated: for every even-length line sequence, equal even-indexed  *)
(* lines included, the printed mapping has Len(lines)/2 entries and entry  *)
(* p is the p-th pair of lines.                                            *)
C1_AsStated ==
    (Written /\ EvenLength) =>
        /\ Output.ok
        /\ Len(Entries) = NumPairs
        /\ \A p \in 1..NumPairs : Entries[p] = <<PairKey(p), PairValue(p)>>

(* C1, amended: for every even-length line sequence whose even-indexed     *)
(* lines are pairwise distinct, the printed mapping has Len(lines)/2       *)
(* entries and entry p is the p-th pair of lines.                          *)
C1_DistinctKeysRoundTrip ==
    (Written /\ EvenLength /\ KeysDistinct) =>
        /\ Output.ok
        /\ Len(Entries) = NumPairs
        /\ \A p \in 1..NumPairs : Entries[p] = <<PairKey(p), PairValue(p)>>

\* Three pairs with distinct keys, one of them holding a quote, were printed.
C1_Witness ==
    /\ Written
    /\ pc = "done"
    /\ NumPairs = 3
    /\ KeysDistinct
    /\ \E p \in 1..NumPairs : PairKey(p) = <<"\"">>
    /\ Len(Entries) = 3

(* C4: a key that several pairs share appears exactly once in the printed  *)
(* mapping, with the value of the last pair that has it; a key that one    *)
(* pair has appears once with that pair's value.                           *)
C4_LastWriteWins ==
    Written =>
        /\ Output.ok
        /\ \A p \in 1..NumPairs :
              /\ Cardinality(EntriesOf(PairKey(p))) = 1
              /\ \A i \in EntriesOf(PairKey(p)) :
                    Entries[i][2] = PairValue(LastPair(PairKey(p)))

\* A key was given two different values and another key stands beside it.
C4_Witness ==
    /\ Written
    /\ \E p, q \in 1..NumPairs :
          /\ p < q
          /\ PairKey(p) = PairKey(q)
          /\ PairValue(p) # PairValue(q)
          /\ \E i \in 1..Len(Entries) : Entries[i] = <<PairKey(q), PairValue(q)>>
    /\ \E r \in 1..NumPairs : Cardinality(PairsOf(PairKey(r))) = 1
    /\ Len(Entries) = 2

(* C5: the keys of the printed object stand in first-insertion order: one  *)
(* key precedes another exactly when its first pair comes first in the     *)
(* file, also when a later pair overwrote it.                              *)
C5_FirstInsertionOrder ==
    Written =>
        /\ Output.ok
        /\ \A i, j \in 1..Len(Entries) :
              /\ PairsOf(Entries[i][1]) # {}
              /\ PairsOf(Entries[j][1]) # {}
              /\ (i < j <=>
                    FirstPair(Entries[i][1]) < FirstPair(Entries[j][1]))

\* The first key was overwritten after a second key had been inserted.
C5_Witness ==
    /\ Written
    /\ NumPairs = 3
    /\ PairKey(1) = PairKey(3)
    /\ PairKey(1) # PairKey(2)
    /\ Len(Entries) = 2
    /\ Entries[1][1] = PairKey(1)
    /\ Entries[2][1] = PairKey(2)

(* C10: whenever a run writes output, the mapping has as many entries as   *)
(* there are distinct even-indexed lines, at most Len(lines) \div 2; every *)
(* key is an even-indexed line and its value is the line after the last    *)
(* occurrence of that key at an even index.                                *)
C10_EntriesFromLines ==
    Written =>
        /\ Output.ok
        /\ Len(Entries) = Cardinality({PairKey(p) : p \in 1..NumPairs})
        /\ Len(Entries) <= Len(lines) \div 2
        /\ \A i \in 1..Len(Entries) :
              /\ PairsOf(Entries[i][1]) # {}
              /\ Entries[i][2] = PairValue(LastPair(Entries[i][1]))

\* Output with fewer entries than pairs, and a line that is only a value.
C10_Witness ==
    /\ Written
    /\ Len(Entries) = 2
    /\ NumPairs = 3
    /\ \E p \in 1..NumPairs : PairsOf(PairValue(p)) = {}

-----------------------------------------------------------------------------
\* The file was read: lines holds the line sequence.
LinesRead == status = "ok" /\ pc \notin {"line5", "line6"}

LastLine == lines[Len(lines)]

(* C2, as stated: with an odd number of lines the run completes and prints *)
(* the object built from the first Len(lines) - 1 lines; the last line is  *)
(* neither a key nor a value.                                              *)
C2_AsStated ==
    (Terminated /\ LinesRead /\ ~EvenLength) =>
        /\ pc = "done"
        /\ exitStatus = "0"
        /\ Output.ok
        /\ Len(Entries) <= NumPairs
        /\ \A i \in 1..Len(Entries) :
              /\ PairsOf(Entries[i][1]) # {}
              /\ Entries[i][2] = PairValue(LastPair(Entries[i][1]))

(* C2, amended: with an odd number of lines the last batch is a 1-tuple    *)
(* holding the final line, dict() raises ValueError on it, the file is     *)
(* closed and the run ends with status 1 having written nothing.           *)
C2_OddLengthFails ==
    (LinesRead /\ ~EvenLength) =>
        /\ stdout = <<>>
        /\ pc \in {"line7", "line8", "unwinding", "uncaught", "failed"}
        /\ (pc # "line7" =>
              /\ Len(defs) = NumPairs + 1
              /\ defs[Len(defs)] = <<LastLine>>)
        /\ (pc \in {"unwinding", "uncaught", "failed"} => exc = "ValueError")
        /\ (pc = "failed" => exitStatus = "1" /\ fh = "closed")

\* A run on three or more lines, an odd number, has ended.
C2_Witness ==
    /\ LinesRead
    /\ Len(lines) \in {3, 5}
    /\ pc = "failed"
    /\ exc = "ValueError"

(* C3, as stated: only a file-access failure ends a run in an error; every *)
(* readable file, whatever its lines, ends in success with the object      *)
(* written.                                                                *)
C3_AsStated ==
    (Terminated /\ status = "ok") =>
        /\ pc = "done"
        /\ exitStatus = "0"
        /\ Written

(* C3, amended: a run ends in an error exactly when the file cannot be     *)
(* opened or read, or when it is readable and has an odd number of lines   *)
(* (ValueError); every readable file with an even number of lines, empty   *)
(* lines and duplicate keys included, ends in success with the object      *)
(* written.                                                                *)
C3_ErrorsAreAccessOrOddLength ==
    Terminated =>
        /\ (pc = "failed" <=> (status # "ok" \/ ~EvenLength))
        /\ (pc = "failed" /\ status = "ok" => exc = "ValueError")
        /\ (pc = "failed" /\ status # "ok" =>
              exc \in {"FileNotFoundError", "PermissionError", "OSError"})
        /\ (pc = "failed" => exitStatus = "1" /\ stdout = <<>>)
        /\ (pc = "done" => exitStatus = "0" /\ exc = "" /\ Output.ok)

\* A readable file with an empty key and a duplicate key ended in success.
C3_Witness ==
    /\ pc = "done"
    /\ status = "ok"
    /\ NumPairs >= 2
    /\ ~KeysDistinct
    /\ \E p \in 1..NumPairs : PairKey(p) = <<>>
    /\ Output.ok

(* C6: when the file is missing or cannot be opened, open() is tried once, *)
(* the run goes on to end with status 1, the file is never open and        *)
(* nothing is ever written to standard output.                             *)
C6_OpenFailureIsFatal ==
    status \in {"missing", "denied"} =>
        /\ stdout = <<>>
        /\ fh = "unopened"
        /\ opens <= 1
        /\ pc \in {"line5", "uncaught", "failed"}
        /\ (pc # "failed" => ENABLED Next)
        /\ (pc # "line5" =>
              exc \in {"FileNotFoundError", "PermissionError"})
        /\ (pc = "failed" => exitStatus = "1")

\* A run on a missing file has ended.
C6_Witness ==
    /\ status = "missing"
    /\ pc = "failed"
    /\ exitStatus = "1"
    /\ opens = 1

(* C7, as stated: the file is closed before any output is written, the     *)
(* handle is never open at the moment of the write.                        *)
C7_AsStated == [][stdout' # stdout => fh = "closed"]_vars

(* C7, amended: output is written only after the file was read to its end, *)
(* and while the handle is still open; the step after the write closes     *)
(* it, and the handle is not open once the run has ended, in success or    *)
(* in failure.                                                             *)
C7_ReadThenWriteThenClose ==
    /\ [][stdout' # stdout =>
            /\ fh = "open" /\ fh' = "open"
            /\ pos = Len(content)
            /\ pc = "line9"]_vars
    /\ [][pc = "with_exit" => fh' = "closed" /\ stdout' = stdout]_vars
    /\ [](Terminated => fh # "open")
    /\ [](Terminated /\ OpenError(status) = "" => fh = "closed")

\* The moment after the write: output is there and the handle is open.
C7_Witness ==
    /\ pc = "with_exit"
    /\ Written
    /\ fh = "open"
    /\ Len(content) > 0
    /\ pos = Len(content)

Terminators ==
    {i \in 1..Len(content) :
        /\ content[i] \in LineBreaks
        /\ ~(content[i] = "\n" /\ i > 1 /\ content[i - 1] = "\r")}

EndsTerminated == content # <<>> /\ content[Len(content)] \in LineBreaks

\* The characters before the file's final terminator.
BeforeFinalTerminator ==
    IF Len(content) >= 2 /\ content[Len(content)] = "\n"
       /\ content[Len(content) - 1] = "\r"
    THEN Len(content) - 2
    ELSE Len(content) - 1

\* The file's last line is blank.
LastLineBlank ==
    /\ EndsTerminated
    /\ (BeforeFinalTerminator = 0
          \/ content[BeforeFinalTerminator] \in LineBreaks)

(* C9, as stated: the line sequence never ends with an empty string.       *)
C9_AsStated ==
    LinesRead => (lines = <<>> \/ LastLine # <<>>)

(* C9, amended: the line sequence has one entry per line terminator plus   *)
(* one for an unterminated last line, so a single final terminator adds no *)
(* entry; blank lines at the end of the file are kept, and the sequence    *)
(* ends with an empty string exactly when the file's last line is blank.   *)
C9_TrailingBlankLinesKept ==
    LinesRead =>
        /\ Len(lines) = Cardinality(Terminators)
                        + (IF content # <<>> /\ ~EndsTerminated THEN 1 ELSE 0)
        /\ \A i \in 1..Len(lines) : \A j \in 1..Len(lines[i]) :
              lines[i][j] \notin LineBreaks
        /\ ((lines # <<>> /\ LastLine = <<>>) <=> LastLineBlank)

\* A file ending in a blank line: the empty last entry went into the output.
C9_Witness ==
    /\ pc = "done"
    /\ Len(content) >= 3
    /\ content[Len(content)] = "\n"
    /\ content[Len(content) - 1] = "\n"
    /\ content[Len(content) - 2] = "a"
    /\ LastLine = <<>>
    /\ \E i \in 1..Len(Entries) : Entries[i][2] = <<>> /\ Entries[i][1] # <<>>

=============================================================================
